---------------------------- MODULE Spec2Model ----------------------------
(***************************************************************************)
(* The conversational retrieval chain of                                   *)
(* langchain/chains/conversational_retrieval/base.py: the chat-history     *)
(* formatter, the filter simplification, the token-budget reduction, the   *)
(* confidentiality gate of _call, and the asynchronous path _acall.        *)
(*                                                                         *)
(* One behaviour is one chain object (cfg) called with one input mapping   *)
(* (inputs): first through _call, then, on the same inputs and with the    *)
(* same collaborator replies, through _acall.                              *)
(***************************************************************************)
EXTENDS Integers, Sequences, FiniteSets, TLC

VARIABLES
    cfg,                \* the chain object's fields
    inputs,             \* the inputs mapping of the call
    path,               \* "sync" (_call) or "async" (_acall)
    pc,                 \* position inside the running method
    chat_history_str,   \* local of _call/_acall: the formatted history
    new_question,       \* local of _call/_acall
    filter,             \* local of _call
    simplified_filter,  \* local of _call
    store,              \* what the document store answers (fixed once asked)
    relevant_docs,      \* local relevant_docs (_call) / docs (_acall)
    n_post_filters,     \* local of _call
    calls,              \* the collaborator calls made by the running method
    output,             \* the mapping the running method returned
    error,              \* the exception the running method raised
    sync_out            \* what _call ended with, kept while _acall runs

vars == << cfg, inputs, path, pc, chat_history_str, new_question, filter,
           simplified_filter, store, relevant_docs, n_post_filters, calls,
           output, error, sync_out >>

-----------------------------------------------------------------------------
(* Bounds of the model *)

MaxDocs == 2        \* documents the store returns
MaxCost == 1        \* token cost of one document
MaxBudget == 1      \* max_tokens_limit, when set
MaxOver == 1        \* match counts reach Threshold + MaxOver
MaxOr == 2          \* leaves under one $or
MaxAnd == 2         \* conditions under one $and

(* Program constants *)

Threshold == 10     \* "if n_post_filters < 10"
NoLimit == -1       \* max_tokens_limit = None

-----------------------------------------------------------------------------
(* Chat history: _get_chat_history *)

\* A dialogue turn.  kind "message" is a BaseMessage (role = its type),
\* kind "tuple" is a Python tuple of len elements (human and ai are its
\* elements 0 and 1), kind "other" is any other object (a list, a str).
Message(role, content) ==
    [kind |-> "message", len |-> 0, role |-> role, human |-> content, ai |-> ""]
Tuple2(human, ai) ==
    [kind |-> "tuple", len |-> 2, role |-> "", human |-> human, ai |-> ai]
Tuple3(human, ai) ==
    [kind |-> "tuple", len |-> 3, role |-> "", human |-> human, ai |-> ai]
OtherTurn ==
    [kind |-> "other", len |-> 0, role |-> "", human |-> "", ai |-> ""]

\* _ROLE_MAP.get(type, f"{type}: ")
_ROLE_MAP(type) ==
    IF type = "human" THEN "Human: "
    ELSE IF type = "ai" THEN "Assistant: "
    ELSE type \o ": "

\* The formatter's result: the buffer as its lines (each line stands for
\* "\n" + prefix + text, so the buffer is the empty string iff it has no
\* line), or the exception raised.
Returned(v) == [raised |-> "", value |-> v]
Raised(e) == [raised |-> e, value |-> << >>]

Line(prefix, text) == [prefix |-> prefix, text |-> text]

\* One iteration of the for loop: the lines one turn adds, or the raise.
TurnLines(dialogue_turn) ==
    IF dialogue_turn.kind = "message"
    THEN Returned(<< Line(_ROLE_MAP(dialogue_turn.role), dialogue_turn.human) >>)
    ELSE IF dialogue_turn.kind = "tuple"
    THEN IF dialogue_turn.len < 2
         THEN Raised("IndexError")          \* dialogue_turn[1]
         ELSE Returned(<< Line("Human: ", dialogue_turn.human),
                          Line("Assistant: ", dialogue_turn.ai) >>)
    ELSE Raised("ValueError")               \* Unsupported chat history format

RECURSIVE HistoryLoop(_, _, _)
HistoryLoop(chat_history, i, buffer) ==
    IF i > Len(chat_history) THEN Returned(buffer)
    ELSE LET r == TurnLines(chat_history[i])
         IN  IF r.raised # "" THEN r
             ELSE HistoryLoop(chat_history, i + 1, buffer \o r.value)

\* _get_chat_history with the buffer started as "\n" instead of ""
_get_chat_history_newline(chat_history) ==
    HistoryLoop(chat_history, 1, << Line("", "") >>)

_get_chat_history(chat_history) == HistoryLoop(chat_history, 1, << >>)

\* A caller-supplied get_chat_history is any function of the history; the
\* one modelled here accepts every turn and always returns a fixed text.
CustomLine == Line("", "custom context")
CustomHistory(chat_history) == Returned(<< CustomLine >>)

\* get_chat_history = self.get_chat_history or _get_chat_history
get_chat_history(c, chat_history) ==
    IF c.get_chat_history = "None"
    THEN _get_chat_history(chat_history)
    ELSE CustomHistory(chat_history)

-----------------------------------------------------------------------------
(* Filters *)

\* A Python dict is the sequence of its items.  An item's value is either a
\* predicate dict {op: v} (t = "pred") or a list of dicts (t = "list").
Pred(key, op, v) ==
    [key |-> key, t |-> "pred", op |-> op, v |-> v, items |-> << >>]
List(key, items) ==
    [key |-> key, t |-> "list", op |-> "", v |-> "", items |-> items]

Leaf(field, v) == << Pred(field, "$eq", v) >>
Or(leaves) == << List("$or", leaves) >>
And(conditions) == << List("$and", conditions) >>

HasKey(d, key) == \E i \in DOMAIN d : d[i].key = key
Get(d, key) == d[CHOOSE i \in DOMAIN d : d[i].key = key]

\* simplified_filter as a dict: a function from its keys to lists.
EmptyDict == [k \in {} |-> << >>]

\* AddLeaf with the append lost: the key's list is always created anew
AddLeafOverwrite(acc, item) ==
    IF acc.raised # "" THEN acc
    ELSE IF item.t = "list" THEN Raised("TypeError")
    ELSE IF item.op # "$eq" THEN Raised("KeyError")
    ELSE LET d == acc.value
         IN  Returned([k \in DOMAIN d \cup {item.key} |->
                         IF k = item.key THEN << item.v >> ELSE d[k]])

\* value['$eq'] followed by the append/create on simplified_filter
AddLeaf(acc, item) ==
    IF acc.raised # "" THEN acc
    ELSE IF item.t = "list" THEN Raised("TypeError")
    ELSE IF item.op # "$eq" THEN Raised("KeyError")
    ELSE LET d == acc.value
         IN  Returned([k \in DOMAIN d \cup {item.key} |->
                         IF k = item.key
                         THEN IF k \in DOMAIN d THEN Append(d[k], item.v)
                              ELSE << item.v >>
                         ELSE d[k]])

\* for key, value in <dict>.items(): ...
RECURSIVE ItemsLoop(_, _, _)
ItemsLoop(d, i, acc) ==
    IF i > Len(d) \/ acc.raised # "" THEN acc
    ELSE ItemsLoop(d, i + 1, AddLeaf(acc, d[i]))

\* for or_condition in condition['$or']: ...
RECURSIVE OrLoop(_, _, _)
OrLoop(or_conditions, i, acc) ==
    IF i > Len(or_conditions) \/ acc.raised # "" THEN acc
    ELSE OrLoop(or_conditions, i + 1, ItemsLoop(or_conditions[i], 1, acc))

\* the body of "for condition in conditions"
Condition(condition, acc) ==
    IF HasKey(condition, "$or")
    THEN OrLoop(Get(condition, "$or").items, 1, acc)
    ELSE ItemsLoop(condition, 1, acc)

RECURSIVE ConditionsLoop(_, _, _)
ConditionsLoop(conditions, i, acc) ==
    IF i > Len(conditions) \/ acc.raised # "" THEN acc
    ELSE ConditionsLoop(conditions, i + 1, Condition(conditions[i], acc))

\* The else branch of "Transform filter to simpler format for output".
Simplify(f) ==
    LET conditions == IF HasKey(f, "$and") THEN Get(f, "$and").items
                      ELSE << f >>
    IN  ConditionsLoop(conditions, 1, Returned(EmptyDict))

\* The search_kwargs of the inputs: no filter key, filter = None, or a dict.
NoFilterKey == [given |-> "absent", dict |-> << >>]
NoneFilter == [given |-> "None", dict |-> << >>]
DictFilter(d) == [given |-> "dict", dict |-> d]

\* filter after the try/except: the string 'No filters applied', None, or
\* the dict.
SentinelFilter == [given |-> "No filters applied", dict |-> << >>]
ReadFilter(search_filter) ==
    IF search_filter.given = "absent" THEN SentinelFilter ELSE search_filter

\* simplified_filter: the sentinel, or the dict built by Simplify.
SentinelSimplified == [sentinel |-> TRUE, dict |-> EmptyDict]
SimplifyFilter(flt) ==
    IF flt.given = "None" \/ flt.given = "No filters applied"
    THEN Returned(SentinelSimplified)
    ELSE LET r == Simplify(flt.dict)
         IN  IF r.raised # "" THEN r
             ELSE Returned([sentinel |-> FALSE, dict |-> r.value])

-----------------------------------------------------------------------------
(* Documents and the token budget: _reduce_tokens_below_limit *)

\* A Document: id is its position in the store's answer, tokens is what
\* llm.get_num_tokens(doc.page_content) returns for it.
Doc(i, c) == [id |-> i, tokens |-> c]
NoDoc == Doc(0, 0)
DocList(costs) == [i \in 1..Len(costs) |-> Doc(i, costs[i])]
DocLists == { DocList(costs) :
                costs \in UNION { [1..k -> 1..MaxCost] : k \in 0..MaxDocs } }

get_num_tokens(doc) == doc.tokens

RECURSIVE SumSeq(_)
SumSeq(s) == IF s = << >> THEN 0 ELSE Head(s) + SumSeq(Tail(s))

\* Python truthiness of Optional[int]: None and 0 are false.
Truthy(limit) == limit # NoLimit /\ limit # 0

\* while token_count > self.max_tokens_limit: ...   (tokens[num_docs] is
\* 0-based, so after the decrement it is element num_docs + 1 here)
RECURSIVE ReduceLoop(_, _, _, _)
ReduceLoop(tokens, num_docs, token_count, limit) ==
    IF token_count > limit
    THEN ReduceLoop(tokens, num_docs - 1,
                    token_count - tokens[(num_docs - 1) + 1], limit)
    ELSE num_docs

_reduce_tokens_below_limit(c, docs) ==
    LET num_docs == Len(docs)
    IN  IF Truthy(c.max_tokens_limit) /\ c.stuff
        THEN LET tokens == [i \in 1..Len(docs) |-> get_num_tokens(docs[i])]
                 token_count == SumSeq(SubSeq(tokens, 1, num_docs))
             IN  SubSeq(docs, 1,
                        ReduceLoop(tokens, num_docs, token_count,
                                   c.max_tokens_limit))
        ELSE SubSeq(docs, 1, num_docs)

-----------------------------------------------------------------------------
(* Collaborators *)

\* question_generator.run / arun: the standalone question
question_generator(question, history) == "standalone question"

\* combine_docs_chain.combine_docs / arun: the answer text
combine_docs_chain(docs, question, history) == "X"

\* What the store may answer.  The retriever answers a list of documents
\* (docs: List[Document]); vectorstore.similarity_search answers the pair
\* (documents, match count) that _call unpacks.
Counts == 0..(Threshold + MaxOver)
StoreReplies(variant) ==
    IF variant = "retriever"
    THEN { [asked |-> TRUE, docs |-> d, n |-> 0] : d \in DocLists }
    ELSE { [asked |-> TRUE, docs |-> d, n |-> n] : d \in DocLists, n \in Counts }
NotAsked == [asked |-> FALSE, docs |-> << >>, n |-> 0]

\* One collaborator call: its arguments, and whether it returned (ok) or
\* raised.
Call(fn, question, history, docs, ok) ==
    [fn |-> fn, question |-> question, chat_history |-> history, docs |-> docs,
     ok |-> ok]

\* A Python value held by n_post_filters: an int, or a Document when a
\* two-element list of documents was unpacked.
IntVal(n) == [type |-> "int", int |-> n, doc |-> NoDoc]
DocVal(d) == [type |-> "Document", int |-> 0, doc |-> d]

-----------------------------------------------------------------------------
(* What a method returns *)

NoResultsText == "No comments found for these attributes"
BelowThresholdText ==
    "No. of comments in this group is less than the confidentiality threshold (10).Please try broadening the group."

\* the dict "result" of _call
AnswerResult(answer, flt, simplified, n) ==
    [type |-> "dict", answer |-> answer, filter |-> flt,
     simplified_filter |-> simplified, n_comments |-> n]
\* the plain answer string of _acall
AnswerString(answer) == [type |-> "str", answer |-> answer]

NoOutput == [returned |-> FALSE, keys |-> {}, answer |-> AnswerString(""),
             source_documents |-> << >>]
\* {self.output_key: result}
Output(answer) == [returned |-> TRUE, keys |-> {"answer"}, answer |-> answer,
                   source_documents |-> << >>]
\* {self.output_key: result, "source_documents": docs}
OutputWithDocs(answer, docs) ==
    [returned |-> TRUE, keys |-> {"answer", "source_documents"},
     answer |-> answer, source_documents |-> docs]

\* output_keys
output_keys(c) ==
    IF c.return_source_documents THEN {"answer", "source_documents"}
    ELSE {"answer"}

NoSyncOut == [finished |-> FALSE, output |-> NoOutput, error |-> "",
              calls |-> << >>, n |-> IntVal(0)]

-----------------------------------------------------------------------------
(* Inputs *)

Limits == {NoLimit} \cup 0..MaxBudget

Configs ==
    [variant : {"retriever", "vectordb"},
     return_source_documents : BOOLEAN,
     max_tokens_limit : Limits,
     stuff : BOOLEAN,                  \* combine_docs_chain is a StuffDocumentsChain
     get_chat_history : {"None", "custom"}]

Histories ==
    { << >>,
      << Message("human", "hi") >>,
      << Tuple2("hi", "hello") >>,
      << Tuple3("hi", "hello") >>,
      << Tuple2("hi", "hello"), OtherTurn >> }

ExampleFilter ==
    And(<< Leaf("region", "EU"),
           Or(<< Leaf("tier", "gold"), Leaf("tier", "silver") >>) >>)
RangeFilter == << Pred("age", "$gt", "3") >>

PipelineFilters ==
    { NoFilterKey, DictFilter(Leaf("region", "EU")), DictFilter(RangeFilter),
      DictFilter(ExampleFilter) }

Inputs(filters) ==
    [question : {"q"}, chat_history : Histories, search_filter : filters]

Blank ==
    /\ path = "sync"
    /\ pc = "start"
    /\ chat_history_str = << >>
    /\ new_question = ""
    /\ filter = NoFilterKey
    /\ simplified_filter = SentinelSimplified
    /\ store = NotAsked
    /\ relevant_docs = << >>
    /\ n_post_filters = IntVal(0)
    /\ calls = << >>
    /\ output = NoOutput
    /\ error = ""
    /\ sync_out = NoSyncOut

Init ==
    /\ cfg \in Configs
    /\ inputs \in Inputs(PipelineFilters)
    /\ Blank

-----------------------------------------------------------------------------
(* _call *)

Raise(e) ==
    /\ pc' = "failed"
    /\ error' = e

\* chat_history_str = get_chat_history(inputs["chat_history"])
Format ==
    /\ path = "sync" /\ pc = "start"
    /\ LET r == get_chat_history(cfg, inputs.chat_history)
       IN  IF r.raised # ""
           THEN Raise(r.raised) /\ UNCHANGED chat_history_str
           ELSE /\ chat_history_str' = r.value
                /\ pc' = "condense"
                /\ UNCHANGED error
    /\ UNCHANGED << cfg, inputs, path, new_question, filter, simplified_filter,
                    store, relevant_docs, n_post_filters, calls, output,
                    sync_out >>

\* CondenseFailed with the exception caught and the raw question used instead
CondenseFallback ==
    /\ new_question' = inputs.question
    /\ pc' = "simplify"
    /\ UNCHANGED error

\* question_generator.run raised: _call has no handler, the exception leaves it
CondenseFailed ==
    /\ Raise("CollaboratorError")
    /\ UNCHANGED new_question

\* if chat_history_str: new_question = self.question_generator.run(...)
Condense ==
    /\ path = "sync" /\ pc = "condense"
    /\ chat_history_str # << >>
    /\ \E ok \in BOOLEAN :
         /\ calls' = Append(calls, Call("condense", inputs.question,
                                        chat_history_str, << >>, ok))
         /\ IF ok
            THEN /\ new_question' =
                        question_generator(inputs.question, chat_history_str)
                 /\ pc' = "simplify"
                 /\ UNCHANGED error
            ELSE CondenseFailed
    /\ UNCHANGED << cfg, inputs, path, chat_history_str, filter,
                    simplified_filter, store, relevant_docs, n_post_filters,
                    output, sync_out >>

\* else: new_question = question
SkipCondense ==
    /\ path = "sync" /\ pc = "condense"
    /\ chat_history_str = << >>
    /\ new_question' = inputs.question
    /\ pc' = "simplify"
    /\ UNCHANGED << cfg, inputs, path, chat_history_str, filter,
                    simplified_filter, store, relevant_docs, n_post_filters,
                    calls, output, error, sync_out >>

\* filter = inputs.get("search_kwargs", {})['filter'] ... simplified_filter
SimplifyStep ==
    /\ path = "sync" /\ pc = "simplify"
    /\ filter' = ReadFilter(inputs.search_filter)
    /\ LET r == SimplifyFilter(filter')
       IN  IF r.raised # ""
           THEN Raise(r.raised) /\ UNCHANGED simplified_filter
           ELSE /\ simplified_filter' = r.value
                /\ pc' = "retrieve"
                /\ UNCHANGED error
    /\ UNCHANGED << cfg, inputs, path, chat_history_str, new_question, store,
                    relevant_docs, n_post_filters, calls, output, sync_out >>

\* ConversationalRetrievalChain._get_docs: the reduced list of documents
RetrieverGetDocs(reply) == _reduce_tokens_below_limit(cfg, reply.docs)

\* relevant_docs, n_post_filters = self._get_docs(new_question, inputs)
GetDocs ==
    /\ path = "sync" /\ pc = "retrieve"
    /\ \E ok \in BOOLEAN :
       /\ calls' = Append(calls, Call("retrieve", new_question, << >>, << >>, ok))
       /\ IF ok
         THEN \E reply \in StoreReplies(cfg.variant) :
                /\ store.asked => reply = store
                /\ store' = reply
                /\ IF cfg.variant = "vectordb"
                   THEN \* ChatVectorDBChain._get_docs returns the store's pair
                        /\ relevant_docs' = reply.docs
                        /\ n_post_filters' = IntVal(reply.n)
                        /\ pc' = "gate"
                        /\ UNCHANGED error
                   ELSE LET docs == RetrieverGetDocs(reply)
                        IN  IF Len(docs) = 2
                            THEN \* the two documents are unpacked: the first
                                 \* becomes relevant_docs (kept here as a
                                 \* one-element list, it is not read again),
                                 \* the second n_post_filters
                                 /\ relevant_docs' = << docs[1] >>
                                 /\ n_post_filters' = DocVal(docs[2])
                                 /\ pc' = "gate"
                                 /\ UNCHANGED error
                            ELSE /\ Raise("ValueError")
                                 /\ UNCHANGED << relevant_docs, n_post_filters >>
         ELSE /\ Raise("CollaboratorError")
              /\ UNCHANGED << store, relevant_docs, n_post_filters >>
    /\ UNCHANGED << cfg, inputs, path, chat_history_str, new_question, filter,
                    simplified_filter, output, sync_out >>

\* GateState with the second comparison written n_post_filters <= 10
GateStateInclusive(n) ==
    IF n = 0 THEN "NO_RESULTS"
    ELSE IF n <= Threshold THEN "BELOW_THRESHOLD"
    ELSE "ANSWERABLE"

\* The branch the two comparisons of an int n_post_filters select.
GateState(n) ==
    IF n = 0 THEN "NO_RESULTS"
    ELSE IF n < Threshold THEN "BELOW_THRESHOLD"
    ELSE "ANSWERABLE"

\* if n_post_filters == 0: ... if n_post_filters < 10: ... else: ...
Gate ==
    /\ path = "sync" /\ pc = "gate"
    /\ IF n_post_filters.type # "int"
       THEN \* Document == 0 is False, Document < 10 raises
            Raise("TypeError") /\ UNCHANGED output
       ELSE IF GateState(n_post_filters.int) = "NO_RESULTS"
       THEN /\ output' = Output(AnswerResult(NoResultsText, filter,
                                             simplified_filter, n_post_filters))
            /\ pc' = "done"
            /\ UNCHANGED error
       ELSE IF GateState(n_post_filters.int) = "BELOW_THRESHOLD"
       THEN /\ output' = Output(AnswerResult(BelowThresholdText, filter,
                                             simplified_filter, n_post_filters))
            /\ pc' = "done"
            /\ UNCHANGED error
       ELSE /\ pc' = "synth"
            /\ UNCHANGED << output, error >>
    /\ UNCHANGED << cfg, inputs, path, chat_history_str, new_question, filter,
                    simplified_filter, store, relevant_docs, n_post_filters,
                    calls, sync_out >>

\* the dict _call returns after combine_docs
SyncReturn(result) ==
    IF cfg.return_source_documents
    THEN OutputWithDocs(result, relevant_docs)
    ELSE Output(result)

\* answer, _ = self.combine_docs_chain.combine_docs(relevant_docs, **new_inputs)
Synthesize ==
    /\ path = "sync" /\ pc = "synth"
    /\ \E ok \in BOOLEAN :
       /\ calls' = Append(calls, Call("synthesize", new_question,
                                      chat_history_str, relevant_docs, ok))
       /\ IF ok
         THEN LET answer == combine_docs_chain(relevant_docs, new_question,
                                               chat_history_str)
              IN  /\ output' = SyncReturn(AnswerResult(answer, filter,
                                     simplified_filter, n_post_filters))
                  /\ pc' = "done"
                  /\ UNCHANGED error
         ELSE Raise("CollaboratorError") /\ UNCHANGED output
    /\ UNCHANGED << cfg, inputs, path, chat_history_str, new_question, filter,
                    simplified_filter, store, relevant_docs, n_post_filters,
                    sync_out >>

-----------------------------------------------------------------------------
(* The same inputs through _acall, once _call has ended *)

InvokeAsync ==
    /\ path = "sync" /\ pc \in {"done", "failed"}
    /\ sync_out' = [finished |-> TRUE, output |-> output, error |-> error,
                    calls |-> calls, n |-> n_post_filters]
    /\ path' = "async"
    /\ pc' = "start"
    /\ chat_history_str' = << >>
    /\ new_question' = ""
    /\ filter' = NoFilterKey
    /\ simplified_filter' = SentinelSimplified
    /\ relevant_docs' = << >>
    /\ n_post_filters' = IntVal(0)
    /\ calls' = << >>
    /\ output' = NoOutput
    /\ error' = ""
    /\ UNCHANGED << cfg, inputs, store >>

\* chat_history_str = get_chat_history(inputs["chat_history"])
AFormat ==
    /\ path = "async" /\ pc = "start"
    /\ LET r == get_chat_history(cfg, inputs.chat_history)
       IN  IF r.raised # ""
           THEN Raise(r.raised) /\ UNCHANGED chat_history_str
           ELSE /\ chat_history_str' = r.value
                /\ pc' = "condense"
                /\ UNCHANGED error
    /\ UNCHANGED << cfg, inputs, path, new_question, filter, simplified_filter,
                    store, relevant_docs, n_post_filters, calls, output,
                    sync_out >>

\* if chat_history_str: new_question = await self.question_generator.arun(...)
ACondense ==
    /\ path = "async" /\ pc = "condense"
    /\ chat_history_str # << >>
    /\ \E ok \in BOOLEAN :
         /\ calls' = Append(calls, Call("condense", inputs.question,
                                        chat_history_str, << >>, ok))
         /\ IF ok
            THEN /\ new_question' =
                        question_generator(inputs.question, chat_history_str)
                 /\ pc' = "retrieve"
                 /\ UNCHANGED error
            ELSE Raise("CollaboratorError") /\ UNCHANGED new_question
    /\ UNCHANGED << cfg, inputs, path, chat_history_str, filter,
                    simplified_filter, store, relevant_docs, n_post_filters,
                    output, sync_out >>

\* else: new_question = question
ASkipCondense ==
    /\ path = "async" /\ pc = "condense"
    /\ chat_history_str = << >>
    /\ new_question' = inputs.question
    /\ pc' = "retrieve"
    /\ UNCHANGED << cfg, inputs, path, chat_history_str, filter,
                    simplified_filter, store, relevant_docs, n_post_filters,
                    calls, output, error, sync_out >>

\* docs = await self._aget_docs(new_question, inputs)
AGetDocs ==
    /\ path = "async" /\ pc = "retrieve"
    /\ IF cfg.variant = "vectordb"
       THEN \* ChatVectorDBChain._aget_docs
            /\ Raise("NotImplementedError")
            /\ UNCHANGED << store, relevant_docs, calls >>
       ELSE \* ConversationalRetrievalChain._aget_docs
            /\ \E ok \in BOOLEAN :
               /\ calls' = Append(calls, Call("retrieve", new_question,
                                              << >>, << >>, ok))
               /\ IF ok
                 THEN \E reply \in StoreReplies(cfg.variant) :
                        /\ store.asked => reply = store
                        /\ store' = reply
                        /\ relevant_docs' = RetrieverGetDocs(reply)
                        /\ pc' = "synth"
                        /\ UNCHANGED error
                 ELSE /\ Raise("CollaboratorError")
                      /\ UNCHANGED << store, relevant_docs >>
    /\ UNCHANGED << cfg, inputs, path, chat_history_str, new_question, filter,
                    simplified_filter, n_post_filters, output, sync_out >>

\* the dict _acall returns
AsyncReturn(answer) ==
    IF cfg.return_source_documents
    THEN OutputWithDocs(AnswerString(answer), relevant_docs)
    ELSE Output(AnswerString(answer))

\* answer = await self.combine_docs_chain.arun(input_documents=docs, ...)
ASynthesize ==
    /\ path = "async" /\ pc = "synth"
    /\ \E ok \in BOOLEAN :
       /\ calls' = Append(calls, Call("synthesize", new_question,
                                      chat_history_str, relevant_docs, ok))
       /\ IF ok
         THEN /\ output' = AsyncReturn(combine_docs_chain(relevant_docs,
                                          new_question, chat_history_str))
              /\ pc' = "done"
              /\ UNCHANGED error
         ELSE Raise("CollaboratorError") /\ UNCHANGED output
    /\ UNCHANGED << cfg, inputs, path, chat_history_str, new_question, filter,
                    simplified_filter, store, relevant_docs, n_post_filters,
                    sync_out >>

-----------------------------------------------------------------------------
(* Specifications *)

NextSync ==
    \/ Format
    \/ Condense
    \/ SkipCondense
    \/ SimplifyStep
    \/ GetDocs
    \/ Gate
    \/ Synthesize

NextAsync ==
    \/ InvokeAsync
    \/ AFormat
    \/ ACondense
    \/ ASkipCondense
    \/ AGetDocs
    \/ ASynthesize

Next == NextSync \/ NextAsync

Spec == Init /\ [][Next]_vars

-----------------------------------------------------------------------------
(* _call up to the simplified filter, over a family of filters *)

SeqsUpTo(S, n) == UNION { [1..k -> S] : k \in 1..n }

Leaves == { Leaf("region", "EU"), Leaf("tier", "gold"), Leaf("tier", "silver") }
OrFilters == { Or(l) : l \in SeqsUpTo(Leaves, MaxOr) }
AndFilters == { And(c) : c \in SeqsUpTo(Leaves \cup OrFilters, MaxAnd) }
SupportedFilters == Leaves \cup OrFilters \cup AndFilters

UnsupportedFilters ==
    { RangeFilter,
      Or(<< Or(<< Leaf("tier", "gold") >>) >>),
      And(<< And(<< Leaf("region", "EU") >>) >>),
      And(<< Leaf("region", "EU"), RangeFilter >>) }

FilterFamily ==
    {NoFilterKey, NoneFilter}
        \cup { DictFilter(d) : d \in SupportedFilters \cup UnsupportedFilters }

InitFilter ==
    /\ cfg = [variant |-> "vectordb", return_source_documents |-> FALSE,
              max_tokens_limit |-> NoLimit, stuff |-> TRUE,
              get_chat_history |-> "None"]
    /\ inputs \in [question : {"q"}, chat_history : {<< >>},
                   search_filter : FilterFamily]
    /\ Blank

NextFilter ==
    \/ Format
    \/ SkipCondense
    \/ SimplifyStep

SpecFilter == InitFilter /\ [][NextFilter]_vars

-----------------------------------------------------------------------------
(* Vocabulary of the properties *)

Count(cs, fn) == Cardinality({ i \in DOMAIN cs : cs[i].fn = fn })
Rank(fn) == IF fn = "condense" THEN 1 ELSE IF fn = "retrieve" THEN 2 ELSE 3
IsPrefix(a, b) == Len(a) <= Len(b) /\ a = SubSeq(b, 1, Len(a))
Cost(docs) == SumSeq([i \in 1..Len(docs) |-> docs[i].tokens])

SyncReturned == path = "sync" /\ pc = "done"


-----------------------------------------------------------------------------
(* C1: the confidentiality gate *)

SynthCalls == Count(calls, "synthesize")
AnswerText == output.answer.answer

\* C1.  In _call, once the store has answered a match count n: the Answer
\* Synthesizer is never invoked when n < Threshold and at most once
\* otherwise; and when _call returns, the result carries n and is the
\* "no items" answer if n = 0, the "too small" answer if 1 <= n < Threshold,
\* and for n >= Threshold the synthesizer was invoked exactly once and the
\* answer text is its output, whatever documents were returned.  _call
\* returns only when retrieval gave a count.
C1_Gate ==
    /\ SyncReturned => output.returned /\ n_post_filters.type = "int"
    /\ (path = "sync" /\ store.asked /\ cfg.variant = "vectordb"
          /\ pc \in {"gate", "synth", "done", "failed"}) =>
         LET n == store.n
         IN  /\ SynthCalls <= 1
             /\ n < Threshold => SynthCalls = 0
             /\ pc = "done" =>
                  /\ output.answer.type = "dict"
                  /\ output.answer.n_comments = IntVal(n)
                  /\ n = 0 => AnswerText = NoResultsText
                  /\ (1 <= n /\ n < Threshold) => AnswerText = BelowThresholdText
                  /\ n >= Threshold =>
                       /\ SynthCalls = 1
                       /\ AnswerText = combine_docs_chain(relevant_docs,
                                           new_question, chat_history_str)
                       /\ AnswerText \notin {NoResultsText, BelowThresholdText}

\* _call returned the synthesizer's answer for a count of exactly Threshold
\* although the store returned no document at all.
C1_Witness ==
    /\ SyncReturned
    /\ store.n = Threshold /\ store.docs = << >>
    /\ SynthCalls = 1
    /\ AnswerText = "X"

-----------------------------------------------------------------------------
(* C4: the simplified filter *)

IsLeafDict(d) ==
    /\ Len(d) = 1
    /\ d[1].t = "pred" /\ d[1].op = "$eq"
    /\ d[1].key \notin {"$and", "$or"}
IsOrOfLeaves(d) ==
    /\ Len(d) = 1
    /\ d[1].key = "$or" /\ d[1].t = "list"
    /\ \A i \in DOMAIN d[1].items : IsLeafDict(d[1].items[i])
IsAndOfConditions(d) ==
    /\ Len(d) = 1
    /\ d[1].key = "$and" /\ d[1].t = "list"
    /\ \A i \in DOMAIN d[1].items :
         IsLeafDict(d[1].items[i]) \/ IsOrOfLeaves(d[1].items[i])
SupportedShape(d) == IsLeafDict(d) \/ IsOrOfLeaves(d) \/ IsAndOfConditions(d)

\* The leaves of a supported filter, left to right.
ConditionLeaves(c) ==
    IF IsOrOfLeaves(c)
    THEN [i \in 1..Len(c[1].items) |-> c[1].items[i][1]]
    ELSE << c[1] >>
RECURSIVE ConcatAll(_)
ConcatAll(ss) == IF ss = << >> THEN << >> ELSE Head(ss) \o ConcatAll(Tail(ss))
FilterLeaves(d) ==
    IF IsAndOfConditions(d)
    THEN ConcatAll([i \in 1..Len(d[1].items) |-> ConditionLeaves(d[1].items[i])])
    ELSE ConditionLeaves(d)

\* field -> the values of that field's leaves, in traversal order
ValuesByField(d) ==
    LET ls == FilterLeaves(d)
    IN  [k \in { ls[i].key : i \in DOMAIN ls } |->
           LET sel == SelectSeq(ls, LAMBDA x : x.key = k)
           IN  [i \in 1..Len(sel) |-> sel[i].v]]

SimplifyFailed ==
    /\ path = "sync" /\ pc = "failed"
    /\ error \in {"KeyError", "TypeError"}
    /\ Count(calls, "retrieve") = 0

\* C4.  For a filter that is an equality leaf, an OR of equality leaves or an
\* AND of such conditions, the simplification in _call does not fail and the
\* simplified filter maps exactly the fields of the leaves, each to the
\* values of its leaves in traversal order (nothing deduplicated, nothing
\* dropped); with no filter supplied it is the "no filters applied" sentinel.
C4_SimplifiedFilter ==
    LET f == inputs.search_filter
    IN  /\ SimplifyFailed => f.given = "dict" /\ ~SupportedShape(f.dict)
        /\ (path = "sync" /\ pc = "retrieve") =>
             /\ f.given \in {"absent", "None"} =>
                  simplified_filter = SentinelSimplified
             /\ (f.given = "dict" /\ SupportedShape(f.dict)) =>
                  /\ ~simplified_filter.sentinel
                  /\ simplified_filter.dict = ValuesByField(f.dict)

\* The filter AND(region = EU, OR(tier = gold, tier = silver)) was simplified
\* to {region: [EU], tier: [gold, silver]}.
C4_Witness ==
    /\ path = "sync" /\ pc = "retrieve"
    /\ inputs.search_filter = DictFilter(ExampleFilter)
    /\ DOMAIN simplified_filter.dict = {"region", "tier"}
    /\ simplified_filter.dict["region"] = << "EU" >>
    /\ simplified_filter.dict["tier"] = << "gold", "silver" >>


-----------------------------------------------------------------------------
(* C5: when the question is condensed *)

CondenseCalls == Count(calls, "condense")
RetrieveCalls == Count(calls, "retrieve")
Condensed == pc \notin {"start", "condense"}

\* The two halves of C5 in _call; emptyCase says which invocations the first
\* half is about.
C5_Body(emptyCase) ==
    path = "sync" =>
      /\ (emptyCase /\ pc # "start") =>
           /\ chat_history_str = << >>
           /\ CondenseCalls = 0
           /\ Condensed => new_question = inputs.question
           /\ \A i \in DOMAIN calls :
                calls[i].fn = "retrieve" => calls[i].question = inputs.question
      /\ (chat_history_str # << >> /\ Condensed) =>
           /\ CondenseCalls = 1
           /\ calls[1].fn = "condense"
           /\ calls[1].question = inputs.question
           /\ calls[1].chat_history = chat_history_str
           /\ \A i \in DOMAIN calls :
                calls[i].fn = "retrieve" =>
                  /\ calls[1].ok
                  /\ calls[i].question =
                       question_generator(inputs.question, chat_history_str)

\* C5 as claimed.  In every invocation of _call whose chat history is an
\* empty sequence the formatted history is the empty string, the condenser
\* is never called and the store is queried with the raw question; whenever
\* the formatted history is non-empty the condenser is called once, with the
\* raw question and the formatted history, and the store is queried with the
\* string the condenser returned.
C5_Claimed == C5_Body(inputs.chat_history = << >>)

\* C5 as amended.  The same, the first half only for invocations of a chain
\* with no get_chat_history of its own (the default _get_chat_history
\* formats the history).
C5_DefaultFormatter ==
    C5_Body(inputs.chat_history = << >> /\ cfg.get_chat_history = "None")

\* The default formatter, an empty history: no condenser call was made and
\* the store was asked the raw question.
C5_Witness ==
    /\ path = "sync"
    /\ cfg.get_chat_history = "None" /\ inputs.chat_history = << >>
    /\ CondenseCalls = 0 /\ RetrieveCalls = 1
    /\ calls[1].question = "q"

-----------------------------------------------------------------------------
(* C9: the order of the collaborator calls *)

\* C9.  In _call the collaborators are called in the order condense,
\* retrieve, synthesize, each at most once; the gate is reached only after
\* the one retrieval returned and the synthesizer is called only after the
\* gate; a call that raised is the last call made, _call has then ended with
\* that failure and returned nothing.
C9_CallOrder ==
    path = "sync" =>
      /\ \A i, j \in DOMAIN calls :
           i < j => Rank(calls[i].fn) < Rank(calls[j].fn)
      /\ \A i \in DOMAIN calls :
           ~calls[i].ok =>
             /\ i = Len(calls)
             /\ pc = "failed" /\ error = "CollaboratorError"
      /\ pc \in {"gate", "synth", "done"} =>
           /\ RetrieveCalls = 1
           /\ \A i \in DOMAIN calls : calls[i].ok
      /\ SynthCalls >= 1 =>
           /\ RetrieveCalls = 1
           /\ n_post_filters.type = "int" /\ n_post_filters.int >= Threshold
      /\ pc = "failed" => ~output.returned /\ error # ""
      /\ pc # "failed" => error = ""
      /\ output.returned => pc = "done"

\* _call returned after calling the condenser, the store and the
\* synthesizer, in this order.
C9_Witness ==
    /\ SyncReturned
    /\ [i \in 1..Len(calls) |-> calls[i].fn]
         = << "condense", "retrieve", "synthesize" >>

-----------------------------------------------------------------------------
(* Claims the code does not meet *)

AsyncEnded == path = "async" /\ pc \in {"done", "failed"}

\* C2.  With the same inputs and the same collaborator replies (no
\* collaborator raised in either run), whenever _call returned a result,
\* _acall returns too, has invoked the synthesizer iff _call did, and
\* returns what _call returned.
C2_SamePaths ==
    (AsyncEnded /\ error # "CollaboratorError"
       /\ sync_out.output.returned) =>
      /\ output.returned
      /\ SynthCalls = Count(sync_out.calls, "synthesize")
      /\ output = sync_out.output

\* C3 for the budgets the loop is run with: the same, for B > 0.
PositiveBudgetReduced ==
    (path = "async" /\ pc \in {"synth", "done"} /\ cfg.variant = "retriever"
       /\ cfg.stuff /\ cfg.max_tokens_limit > 0) =>
      /\ IsPrefix(relevant_docs, store.docs)
      /\ Cost(relevant_docs) <= cfg.max_tokens_limit
      /\ Len(relevant_docs) < Len(store.docs) =>
           Cost(SubSeq(store.docs, 1, Len(relevant_docs) + 1))
             > cfg.max_tokens_limit

\* C3.  With a concatenating chain and a budget B supplied,
\* _reduce_tokens_below_limit (seen in the documents _acall hands on) returns
\* the longest prefix of the retrieved list whose cost is <= B: the whole
\* list when it fits, the empty list when no single document fits.
C3_ReducedPrefix ==
    (path = "async" /\ pc \in {"synth", "done"} /\ cfg.variant = "retriever"
       /\ cfg.stuff /\ cfg.max_tokens_limit # NoLimit) =>
      LET B == cfg.max_tokens_limit
          docs == store.docs
          kept == relevant_docs
      IN  /\ IsPrefix(kept, docs)
          /\ Cost(kept) <= B
          /\ Cost(docs) <= B => kept = docs
          /\ Len(kept) < Len(docs) =>
               Cost(SubSeq(docs, 1, Len(kept) + 1)) > B
          /\ (\A i \in DOMAIN docs : docs[i].tokens > B) => kept = << >>

\* C6.  Whenever _call returns, in any gate state, the keys of the returned
\* mapping are the declared output_keys: source_documents is there, holding
\* the retrieved documents, iff return_source_documents is set.
C6_OutputKeys ==
    SyncReturned =>
      /\ output.keys = output_keys(cfg)
      /\ cfg.return_source_documents =>
           output.source_documents = relevant_docs

UnsupportedFilter ==
    inputs.search_filter.given = "dict"
      /\ ~SupportedShape(inputs.search_filter.dict)

\* C7.  A filter of an unsupported shape never ends _call in the
\* simplification: the retrieval is still performed.
C7_SimplificationOnly == UnsupportedFilter => ~SimplifyFailed

WellFormedTurn(t) == t.kind = "message" \/ (t.kind = "tuple" /\ t.len = 2)
LinesOf(t) ==
    IF t.kind = "message" THEN << Line(_ROLE_MAP(t.role), t.human) >>
    ELSE << Line("Human: ", t.human), Line("Assistant: ", t.ai) >>

\* C8.  With the default formatter: a history holding a turn that is neither
\* a message nor a two-element pair makes the formatter fail with the
\* unsupported-format error (ValueError), no buffer is kept and _call returns
\* nothing; any other history is formatted to its turns' lines in order.
C8_UnsupportedTurn ==
    (path = "sync" /\ cfg.get_chat_history = "None" /\ pc # "start") =>
      LET h == inputs.chat_history
      IN  IF \E i \in DOMAIN h : ~WellFormedTurn(h[i])
          THEN /\ pc = "failed" /\ error = "ValueError"
               /\ chat_history_str = << >>
               /\ ~output.returned
          ELSE chat_history_str =
                 ConcatAll([i \in 1..Len(h) |-> LinesOf(h[i])])

\* C10.  When _call answers (match count >= Threshold) with a concatenating
\* chain and a budget B > 0 configured, the count is the store's and the
\* documents handed to the synthesizer are a prefix of the retrieved list of
\* cost <= B.
C10_ReducedDocsSynthesized ==
    (SyncReturned /\ SynthCalls = 1 /\ cfg.stuff /\ cfg.max_tokens_limit > 0) =>
      LET handed == calls[Len(calls)].docs
      IN  /\ n_post_filters = IntVal(store.n)
          /\ IsPrefix(handed, store.docs)
          /\ Cost(handed) <= cfg.max_tokens_limit

=============================================================================
